---------------------------- MODULE Spec2Model ----------------------------
(***************************************************************************)
(* A model of the YouTube sentiment pipeline of src/app.py (the Streamlit  *)
(* dashboard) and src/tools/ingestor.py (the batch ingestor): the          *)
(* transcript fallback chain, the text-to-signal extraction and the        *)
(* per-channel pass that assembles the output rows.                        *)
(*                                                                         *)
(* A Python str is a sequence of one-character strings, so that length,    *)
(* slicing, case folding, comparison and the regular expressions are       *)
(* computed and not assumed.  Python's None is the value None below.       *)
(***************************************************************************)
EXTENDS Integers, Sequences, FiniteSets, TLC

VARIABLES
    prog,     \* which program runs the pass: "app" or "ingestor"
    pc,       \* position of the pass: "start", "loop", "done", "aborted"
    idx,      \* the loop's position in YOUTUBERS
    rows,     \* the output row collection (rows in app.py:278, ingestor.py:170)
    cur,      \* the loop's local variables, which outlive an iteration
    inputs,   \* history: the external answers each iteration got
    log,      \* history: the external calls and delays, in order
    shadow,   \* a second pass run beside the first one
    kp,       \* a call of pick_key_points: its input and its result
    pair,     \* two transcripts analysed side by side
    acq       \* a call of the acquisition chain: its input and its result

vars == <<prog, pc, idx, rows, cur, inputs, log, shadow, kp, pair, acq>>

-----------------------------------------------------------------------------
(* Python values *)

\* None, as the text of a transcript result: a value no str equals.
None == <<"None">>

\* Truthiness of an optional str: `if txt:` (app.py:264, 287; ingestor.py:175, 177).
Truthy(x) == x # None /\ x # <<>>

\* The printable ASCII characters in code-point order (32..126); "U+0060" stands
\* for the grave accent, which a TLA+ string cannot hold.
Printable ==
    <<" ","!","\"","#","$","%","&","'","(",")","*","+",",","-",".","/","0","1","2",
      "3","4","5","6","7","8","9",":",";","<","=",">","?","@","A","B","C","D","E",
      "F","G","H","I","J","K","L","M","N","O","P","Q","R","S","T","U","V","W","X",
      "Y","Z","[","\\","]","^","_","U+0060","a","b","c","d","e","f","g","h","i","j","k",
      "l","m","n","o","p","q","r","s","t","u","v","w","x","y","z","{","|","}","~">>

\* ord(c) of a printable ASCII character.
OrdMap ==
    [c \in {Printable[i] : i \in 1..Len(Printable)} |->
        31 + (CHOOSE i \in 1..Len(Printable) : Printable[i] = c)]

\* ord(c): the code point, by which Python compares strings.  "U+00A3", "U+20AC"
\* and "U+279C" each stand for one character: the pound and euro signs of PRICE
\* and the arrow of app.py:82.
Ord(c) ==
    CASE c = "\n" -> 10
      [] c = "\t" -> 9
      [] c = "U+00A3" -> 163
      [] c = "U+20AC" -> 8364
      [] c = "U+279C" -> 10140
      [] OTHER -> OrdMap[c]

IsSpace(c) == c \in {" ", "\t", "\n"}
IsDigit(c) == c \in {"0", "1", "2", "3", "4", "5", "6", "7", "8", "9"}
IsUpper(c) == Ord(c) \in 65..90
IsLower(c) == Ord(c) \in 97..122
\* \w of the regular expressions
IsWord(c) == IsUpper(c) \/ IsLower(c) \/ IsDigit(c) \/ c = "_"
\* [.!?]
IsTerminal(c) == c \in {".", "!", "?"}

\* str.lower()
LowerChar(c) == IF IsUpper(c) THEN Printable[Ord(c) + 32 - 31] ELSE c
lower(s) == [i \in 1..Len(s) |-> LowerChar(s[i])]

\* s[:n]
Prefix(s, n) == SubSeq(s, 1, IF Len(s) < n THEN Len(s) ELSE n)

\* str.strip()
strip(s) ==
    IF \A i \in 1..Len(s) : IsSpace(s[i]) THEN <<>>
    ELSE LET first == CHOOSE i \in 1..Len(s) :
                          ~IsSpace(s[i]) /\ \A j \in 1..(i-1) : IsSpace(s[j])
             last  == CHOOSE i \in 1..Len(s) :
                          ~IsSpace(s[i]) /\ \A j \in (i+1)..Len(s) : IsSpace(s[j])
         IN SubSeq(s, first, last)

\* a < b for two str (code-point order, a proper prefix first)
StrLess(a, b) ==
    LET m == IF Len(a) < Len(b) THEN Len(a) ELSE Len(b)
    IN IF \A i \in 1..m : a[i] = b[i] THEN Len(a) < Len(b)
       ELSE LET d == CHOOSE i \in 1..m : a[i] # b[i] /\ \A j \in 1..(i-1) : a[j] = b[j]
            IN Ord(a[d]) < Ord(b[d])

\* sep.join(parts)
RECURSIVE join(_, _)
join(sep, parts) ==
    IF parts = <<>> THEN <<>>
    ELSE IF Len(parts) = 1 THEN parts[1]
    ELSE parts[1] \o sep \o join(sep, Tail(parts))

\* sorted(S) of a set of str
RECURSIVE SortedStrings(_)
SortedStrings(S) ==
    IF S = {} THEN <<>>
    ELSE LET m == CHOOSE x \in S : \A y \in S : x = y \/ StrLess(x, y)
         IN <<m>> \o SortedStrings(S \ {m})

\* the elements of a set of positions, ascending
RECURSIVE Ascending(_)
Ascending(S) ==
    IF S = {} THEN <<>>
    ELSE LET m == CHOOSE x \in S : \A y \in S : x <= y
         IN <<m>> \o Ascending(S \ {m})

\* w occurs in s at position i
StartsAt(s, i, w) ==
    /\ i >= 1
    /\ i + Len(w) - 1 <= Len(s)
    /\ \A k \in 1..Len(w) : s[i + k - 1] = w[k]

\* `w in s`
Contains(s, w) == \E i \in 1..(Len(s) - Len(w) + 1) : StartsAt(s, i, w)

\* \b at the gap before position i (i in 1..Len(s)+1)
WordBoundary(s, i) ==
    LET before == i > 1 /\ IsWord(s[i - 1])
        after  == i <= Len(s) /\ IsWord(s[i])
    IN before # after

\* the length of the longest run of characters satisfying P that starts at i
RunLen(s, i, P(_)) ==
    LET stop == CHOOSE j \in i..(Len(s) + 1) :
                    /\ j = Len(s) + 1 \/ ~P(s[j])
                    /\ \A k \in i..(j - 1) : P(s[k])
    IN stop - i

\* Pattern.findall / str.count: the leftmost non-overlapping matches.  cands are
\* the positions where a match can start, ascending; len[i] is the length of
\* the match that starts at i.  The result is the matched substrings.
RECURSIVE Scan(_, _, _, _, _)
Scan(s, cands, len, k, pos) ==
    IF k > Len(cands) THEN <<>>
    ELSE IF cands[k] < pos THEN Scan(s, cands, len, k + 1, pos)
    ELSE <<SubSeq(s, cands[k], cands[k] + len[cands[k]] - 1)>>
            \o Scan(s, cands, len, k + 1, cands[k] + len[cands[k]])

FindAll(s, MatchLen(_, _)) ==
    LET len   == [i \in 1..Len(s) |-> MatchLen(s, i)]
        cands == Ascending({i \in 1..Len(s) : len[i] > 0})
    IN Scan(s, cands, len, 1, 1)

\* re.search(rf"\b{w}\b", s)
SearchWord(s, w) ==
    \E i \in 1..(Len(s) - Len(w) + 1) :
        StartsAt(s, i, w) /\ WordBoundary(s, i) /\ WordBoundary(s, i + Len(w))

\* s.count(w)
count(s, w) ==
    LET M(t, i) == IF StartsAt(t, i, w) THEN Len(w) ELSE 0
    IN Len(FindAll(s, M))

-----------------------------------------------------------------------------
(* Trading heuristics: the vocabularies and the regular expressions *)


\* app.py:41, ingestor.py:26
CRYPTO ==
    {<<"B","T","C">>,
     <<"E","T","H">>,
     <<"S","O","L">>,
     <<"A","D","A">>,
     <<"X","R","P">>,
     <<"D","O","T">>,
     <<"L","I","N","K">>,
     <<"A","V","A","X">>,
     <<"M","A","T","I","C">>,
     <<"D","O","G","E">>,
     <<"A","R","B">>,
     <<"O","P">>,
     <<"A","T","O","M">>,
     <<"B","N","B">>}

\* app.py:42, ingestor.py:27
MACRO_TERMS ==
    {<<"c","p","i">>,
     <<"i","n","f","l","a","t","i","o","n">>,
     <<"j","o","b","s">>,
     <<"n","o","n","f","a","r","m">>,
     <<"p","a","y","r","o","l","l","s">>,
     <<"p","c","e">>,
     <<"c","o","r","e">>,
     <<"f","o","m","c">>,
     <<"f","e","d">>,
     <<"r","a","t","e">>,
     <<"h","i","k","e">>,
     <<"c","u","t">>,
     <<"e","c","b">>,
     <<"b","o","e">>,
     <<"g","d","p">>,
     <<"r","e","c","e","s","s","i","o","n">>,
     <<"e","t","f">>,
     <<"h","a","l","v","i","n","g">>,
     <<"h","a","l","v","e","n","i","n","g">>,
     <<"t","r","e","a","s","u","r","y">>,
     <<"y","i","e","l","d","s">>,
     <<"b","o","n","d">>}

\* ACTIONS (app.py:43, ingestor.py:28); ACTIONS is a reserved word of TLA+
ACTION_WORDS ==
    {<<"b","u","y">>,
     <<"s","e","l","l">>,
     <<"a","c","c","u","m","u","l","a","t","e">>,
     <<"t","a","k","e"," ","p","r","o","f","i","t">>,
     <<"t","p">>,
     <<"s","t","o","p">>,
     <<"s","t","o","p"," ","l","o","s","s">>,
     <<"s","h","o","r","t">>,
     <<"l","o","n","g">>,
     <<"h","e","d","g","e">>,
     <<"e","n","t","r","y">>,
     <<"t","a","r","g","e","t">>}

\* app.py:44, ingestor.py:29
LEVEL_WORDS ==
    {<<"s","u","p","p","o","r","t">>,
     <<"r","e","s","i","s","t","a","n","c","e">>,
     <<"t","a","r","g","e","t">>,
     <<"e","n","t","r","y">>,
     <<"s","t","o","p">>,
     <<"s","t","o","p","l","o","s","s">>,
     <<"s","t","o","p","-","l","o","s","s">>}

\* the alternation of LEVEL_NEAR, app.py:50, ingestor.py:35
LEVEL_NEAR_WORDS ==
    {<<"s","u","p","p","o","r","t">>,
     <<"r","e","s","i","s","t","a","n","c","e">>,
     <<"t","a","r","g","e","t">>,
     <<"e","n","t","r","y">>,
     <<"s","t","o","p">>}

\* len(s) > 30 of pick_key_points
MinKeyPointLen == 30
\* k = 5 of pick_key_points
DefaultK == 5
\* levels[:5] of extract_entities
MaxLevels == 5
\* price_hits[:3], pct_hits[:3] of extract_entities
MaxHits == 3
\* max_sentences = 5 of quick_summary, n = 5 of summary
MaxSummarySentences == 5
\* sample = full[:1024]
SampleLen == 1024
\* sentiment(sample[:512])
ClassifierLen == 512

\* TICKER_DOLLAR = \$[A-Z]{1,5}\b : the length of the match at i, 0 if none.
\* The run of capitals must end within five letters and at a word boundary:
\* a shorter prefix of it is followed by a capital, which is no boundary.
TickerDollarLen(s, i) ==
    IF s[i] # "$" THEN 0
    ELSE LET n == RunLen(s, i + 1, IsUpper)
         IN IF n \in 1..5 /\ WordBoundary(s, i + 1 + n) THEN 1 + n ELSE 0

\* PLAIN_TICKER = \b[A-Z]{2,5}\b
PlainTickerLen(s, i) ==
    IF ~(IsUpper(s[i]) /\ WordBoundary(s, i)) THEN 0
    ELSE LET n == RunLen(s, i, IsUpper)
         IN IF n \in 2..5 /\ WordBoundary(s, i + n) THEN n ELSE 0

\* PCT = \b-?\d+(?:\.\d+)?%
PctLen(s, i) ==
    IF ~((s[i] = "-" \/ IsDigit(s[i])) /\ WordBoundary(s, i)) THEN 0
    ELSE LET p == IF s[i] = "-" THEN i + 1 ELSE i
             d == RunLen(s, p, IsDigit)
             q == p + d
             e == IF q <= Len(s) /\ s[q] = "." THEN RunLen(s, q + 1, IsDigit) ELSE 0
         IN IF d = 0 THEN 0
            ELSE IF e > 0 /\ q + 1 + e <= Len(s) /\ s[q + 1 + e] = "%"
                 THEN q + 1 + e - i + 1
            ELSE IF q <= Len(s) /\ s[q] = "%" THEN q - i + 1
            ELSE 0

\* ,\d{3} at position j
ThousandsAt(s, j) ==
    /\ j + 3 <= Len(s)
    /\ s[j] = ","
    /\ \A k \in 1..3 : IsDigit(s[j + k])

\* PRICE = (?:\$|£|€)\s?\d{1,3}(?:,\d{3})*(?:\.\d+)?
PriceLen(s, i) ==
    IF s[i] \notin {"$", "U+00A3", "U+20AC"} THEN 0
    ELSE LET p == IF i + 1 <= Len(s) /\ IsSpace(s[i + 1]) THEN i + 2 ELSE i + 1
             d == RunLen(s, p, IsDigit)
             q == p + (IF d < 3 THEN d ELSE 3)
             g == CHOOSE n \in 0..Len(s) :
                      /\ \A k \in 0..(n - 1) : ThousandsAt(s, q + 4 * k)
                      /\ ~ThousandsAt(s, q + 4 * n)
             r == q + 4 * g
             f == IF r <= Len(s) /\ s[r] = "." THEN RunLen(s, r + 1, IsDigit) ELSE 0
         IN IF d = 0 THEN 0
            ELSE r + (IF f > 0 THEN 1 + f ELSE 0) - i

\* re.search(LEVEL_NEAR, sent): one of the five words, in any case; the
\* {0,80} tail matches the empty string.
LevelNear(sent) == \E w \in LEVEL_NEAR_WORDS : Contains(lower(sent), w)

-----------------------------------------------------------------------------
(* Text normalisation and the signal extractor *)

\* re.sub(r"\s+", " ", s) of the characters lo..hi of s: every run of white
\* space becomes one space.
RECURSIVE CollapseRange(_, _, _)
CollapseRange(s, lo, hi) ==
    IF lo > hi THEN <<>>
    ELSE IF lo = hi
         THEN IF ~IsSpace(s[lo]) THEN <<s[lo]>>
              ELSE IF lo > 1 /\ IsSpace(s[lo - 1]) THEN <<>> ELSE <<" ">>
    ELSE LET mid == (lo + hi) \div 2
         IN CollapseRange(s, lo, mid) \o CollapseRange(s, mid + 1, hi)

\* re.sub(r"\s+", " ", s).strip()
Collapse(s) == strip(CollapseRange(s, 1, Len(s)))

\* tidy_text (app.py:113, ingestor.py:37)
tidy_text(text) == Collapse(IF text = None THEN <<>> ELSE text)

\* re.split(r"(?<=[.!?])\s+", s): the pieces between the runs of white space
\* that follow a sentence terminal.
SplitAfterTerminal(s) ==
    LET gaps  == {i \in 2..Len(s) : IsSpace(s[i]) /\ IsTerminal(s[i - 1])}
        from  == Ascending(gaps)
        n     == Len(from)
        \* the first character after the run of white space that starts at i
        After(i) == i + RunLen(s, i, IsSpace)
    IN [k \in 1..(n + 1) |->
            SubSeq(s, IF k = 1 THEN 1 ELSE After(from[k - 1]),
                      IF k = n + 1 THEN Len(s) ELSE from[k] - 1)]

\* split_sentences (app.py:52)
split_sentences(text) == SplitAfterTerminal(Collapse(text))

\* split_sents (ingestor.py:38)
split_sents(t) == SplitAfterTerminal(tidy_text(t))

\* score_sentence (app.py:55, ingestor.py:40)
score_sentence(s) ==
    LET s_low == lower(s)
    IN   3 * Len(FindAll(s, TickerDollarLen))
       + 2 * Len(FindAll(s, PctLen))
       + 2 * Len(FindAll(s, PriceLen))
       + (IF \E w \in LEVEL_WORDS : Contains(s_low, w) THEN 2 ELSE 0)
       + (IF \E w \in ACTION_WORDS : Contains(s_low, w) THEN 2 ELSE 0)
       + (IF \E w \in MACRO_TERMS : Contains(s_low, w) THEN 1 ELSE 0)
       + Cardinality({c \in CRYPTO : Contains(s, c)})

\* the entry of levels for one sentence (app.py:78-82)
LevelEntry(sent) ==
    LET price_hits == FindAll(sent, PriceLen)
        pct_hits   == FindAll(sent, PctLen)
        pieces == (IF price_hits # <<>>
                   THEN <<join(<<" ">>, Prefix(price_hits, MaxHits))>> ELSE <<>>)
                  \o (IF pct_hits # <<>>
                      THEN <<join(<<" ">>, Prefix(pct_hits, MaxHits))>> ELSE <<>>)
    IN strip(sent) \o (IF pieces # <<>>
                       THEN <<" ", " ", "U+279C", " ">> \o join(<<",", " ">>, pieces)
                       ELSE <<>>)

\* extract_entities, given the sentences of the text
Entities(text, sents) ==
    LET dollar  == FindAll(text, TickerDollarLen)
        plain   == FindAll(text, PlainTickerLen)
        tickers == {Tail(dollar[i]) : i \in 1..Len(dollar)}
                   \cup {sym \in CRYPTO : SearchWord(text, sym)}
                   \cup {plain[i] : i \in {j \in 1..Len(plain) : plain[j] \in CRYPTO}}
        low     == lower(text)
        near    == SelectSeq(sents, LevelNear)
    IN [tickers |-> SortedStrings(tickers),
        macro   |-> SortedStrings({w \in MACRO_TERMS : SearchWord(low, w)}),
        actions |-> SortedStrings({w \in ACTION_WORDS : SearchWord(low, w)}),
        levels  |-> Prefix([i \in 1..Len(near) |-> LevelEntry(near[i])], MaxLevels)]

\* extract_entities (app.py:67)
extract_entities(text) == Entities(text, split_sentences(text))

\* extract_entities (ingestor.py:51)
ingestor_extract_entities(text) == Entities(text, split_sents(text))

\* (score_sentence(s), s) < (score_sentence(t), t), as Python compares tuples
TupleLess(a, b) ==
    a.score < b.score \/ (a.score = b.score /\ StrLess(a.s, b.s))

\* sorted(..., reverse=True): descending, equal elements in their given order.
\* Insert x behind the elements of the sorted list that are not smaller.
RECURSIVE InsertDescending(_, _)
InsertDescending(sorted, x) ==
    IF sorted = <<>> THEN <<x>>
    ELSE IF TupleLess(Head(sorted), x) THEN <<x>> \o sorted
    ELSE <<Head(sorted)>> \o InsertDescending(Tail(sorted), x)

RECURSIVE SortedDescending(_, _)
SortedDescending(items, n) ==
    IF n = 0 THEN <<>>
    ELSE InsertDescending(SortedDescending(items, n - 1), items[n])

\* the loop of pick_key_points over scored[i..], with seen and out so far
\* (app.py:89-93): the length test follows the append.
RECURSIVE KeyPointLoop(_, _, _, _, _)
KeyPointLoop(scored, i, seen, out, k) ==
    IF i > Len(scored) THEN out
    ELSE LET s  == scored[i].s
             ss == lower(strip(s))
         IN IF ss \in seen THEN KeyPointLoop(scored, i + 1, seen, out, k)
            ELSE IF Len(out) + 1 >= k THEN Append(out, strip(s))
            ELSE KeyPointLoop(scored, i + 1, seen \cup {ss}, Append(out, strip(s)), k)

\* the scored list of pick_key_points (app.py:87)
Scored(sents) ==
    LET LongEnough(s) == Len(s) > MinKeyPointLen
        long == SelectSeq(sents, LongEnough)
        items == [i \in 1..Len(long) |-> [score |-> score_sentence(long[i]), s |-> long[i]]]
    IN SortedDescending(items, Len(items))

\* pick_key_points (app.py:85)
pick_key_points(text, k) == KeyPointLoop(Scored(split_sentences(text)), 1, {}, <<>>, k)

\* pick_key_points (ingestor.py:69)
ingestor_pick_key_points(text, k) == KeyPointLoop(Scored(split_sents(text)), 1, {}, <<>>, k)

\* summary if summary.endswith((".", "!", "?")) else summary + "."
EndWithTerminal(s) ==
    IF s # <<>> /\ IsTerminal(s[Len(s)]) THEN s ELSE s \o <<".">>

\* quick_summary (app.py:116)
quick_summary(text) ==
    LET t == tidy_text(text)
    IN IF t = <<>> THEN <<>>
       ELSE EndWithTerminal(join(<<" ">>, Prefix(split_sentences(t), MaxSummarySentences)))

\* summary (ingestor.py:80); split_sents never returns an empty list
summary(text) == EndWithTerminal(join(<<" ">>, Prefix(split_sents(text), MaxSummarySentences)))

\* label_to_icon (app.py:123)
label_to_icon(label) ==
    IF label = "POSITIVE" THEN "Bullish"
    ELSE IF label = "NEGATIVE" THEN "Bearish"
    ELSE "Neutral"

\* the keyword lists of rule_sentiment (ingestor.py:163-164)
pos ==
    <<<<"b","r","e","a","k","o","u","t">>,
      <<"b","u","l","l","i","s","h">>,
      <<"r","a","l","l","y">>,
      <<"a","c","c","u","m","u","l","a","t","e">>,
      <<"b","u","y">>,
      <<"u","p","s","i","d","e">>,
      <<"s","u","r","g","e">>,
      <<"s","u","p","p","o","r","t"," ","h","o","l","d","s">>>>

neg ==
    <<<<"s","e","l","l">>,
      <<"b","e","a","r","i","s","h">>,
      <<"b","r","e","a","k","d","o","w","n">>,
      <<"d","u","m","p">>,
      <<"d","o","w","n","s","i","d","e">>,
      <<"r","e","j","e","c","t">>,
      <<"r","e","s","i","s","t","a","n","c","e"," ","f","a","i","l","s">>,
      <<"r","i","s","k","-","o","f","f">>>>

RECURSIVE SumCounts(_, _, _)
SumCounts(t, words, n) ==
    IF n = 0 THEN 0 ELSE count(t, words[n]) + SumCounts(t, words, n - 1)

\* rule_sentiment (ingestor.py:162)
rule_sentiment(text) ==
    LET t     == lower(text)
        score == SumCounts(t, pos, Len(pos)) - SumCounts(t, neg, Len(neg))
    IN IF score > 0 THEN "Bullish" ELSE IF score < 0 THEN "Bearish" ELSE "Neutral"

-----------------------------------------------------------------------------
(* Caption payloads *)

\* segments_to_text (app.py:133, ingestor.py:99): segments is a list (the
\* empty one for None) of records whose text is a str or None.
segments_to_text(segments) ==
    LET HasText(s) == Truthy(s.text)
        kept    == SelectSeq(segments, HasText)
    IN join(<<" ">>, [i \in 1..Len(kept) |-> kept[i].text])

\* str.splitlines() for the line break "\n"
splitlines(s) ==
    LET breaks == Ascending({i \in 1..Len(s) : s[i] = "\n"})
        n      == Len(breaks)
        all    == [k \in 1..(n + 1) |->
                      SubSeq(s, IF k = 1 THEN 1 ELSE breaks[k - 1] + 1,
                                IF k = n + 1 THEN Len(s) ELSE breaks[k] - 1)]
    IN IF all[n + 1] = <<>> THEN SubSeq(all, 1, n) ELSE all

\* the lines vtt_to_text keeps (app.py:140-141, ingestor.py:104-105)
IsCaptionLine(line) ==
    /\ line # <<>>
    /\ ~Contains(line, <<"-", "-", ">">>)
    /\ ~StartsAt(line, 1, <<"W", "E", "B", "V", "T", "T">>)
    /\ ~(strip(line) # <<>> /\ \A i \in 1..Len(strip(line)) : IsDigit(strip(line)[i]))

\* vtt_to_text (app.py:136, ingestor.py:101)
vtt_to_text(vtt) ==
    LET kept == SelectSeq(splitlines(vtt), IsCaptionLine)
    IN tidy_text(join(<<" ">>, [i \in 1..Len(kept) |-> strip(kept[i])]))

-----------------------------------------------------------------------------
(* The transcript source adapters.                                         *)
(*                                                                         *)
(* A call of an external capability ends "ok" or raises; what it raises is *)
(* one of Exceptions.  A function of the program returns (Return) or       *)
(* raises (Raise); an adapter's result is (txt, lang, translated, info).   *)

\* None as a language code, a video id or another atom
NoneAtom == "None"

\* NoTranscriptFound, TranscriptsDisabled and CouldNotRetrieveTranscript are
\* the library's (app.py:8-13); "Exception" is any other Exception, such as a
\* time-out, a rate limit or an HTTP error; "ImportError" and "AttributeError"
\* are a capability that is missing.
Exceptions ==
    {"NoTranscriptFound", "TranscriptsDisabled", "CouldNotRetrieveTranscript",
     "Exception", "ImportError", "AttributeError"}

Return(txt, lang, trans, info) ==
    [kind |-> "return", txt |-> txt, lang |-> lang, trans |-> trans, info |-> info]

Raise(exc, info) == [kind |-> "raise", exc |-> exc, info |-> info]

\* langs_en (app.py:147), langs (ingestor.py:110), the keys of app.py:221
langs_en == <<"en", "en-US", "en-GB">>

\* the loop over the tracks from track i on (app.py:170-180): a track without
\* translate is passed over, a track whose translate or fetch raises is
\* skipped, and the first other track is returned, whatever its text.
RECURSIVE TranslateLoop(_, _, _)
TranslateLoop(tracks, i, steps) ==
    IF i > Len(tracks)
    THEN Return(None, NoneAtom, FALSE, Append(steps, "no_translatable_tracks"))
    ELSE LET t == tracks[i]
         IN IF t.translate # "ok" \/ t.tfetch # "ok"
            THEN TranslateLoop(tracks, i + 1, steps)
            ELSE Return(segments_to_text(t.tsegs), t.lang, TRUE,
                        Append(steps, "translated_from"))

\* find, then fetch, of the human step (app.py:154-160) and of the generated
\* step (162-168): the track's text is returned as soon as the track is found
\* and fetched; NoTranscriptFound from either call moves on (Next); any other
\* exception leaves the try block of the adapter.
FindAndFetch(found, lang, okStep, missStep, steps, Next(_)) ==
    IF found.find = "NoTranscriptFound" THEN Next(Append(steps, missStep))
    ELSE IF found.find # "ok" THEN Raise(found.find, steps)
    ELSE IF found.fetch = "NoTranscriptFound" THEN Next(Append(steps, missStep))
    ELSE IF found.fetch # "ok" THEN Raise(found.fetch, steps)
    ELSE Return(segments_to_text(found.segs), lang, FALSE, Append(steps, okStep))

\* the try block of fetch_with_youtube_transcript_api (app.py:150-192)
YtaTry(r) ==
    IF r.has_list
    THEN IF r.list # "ok" THEN Raise(r.list, <<>>)
         ELSE LET Translate(steps) == TranslateLoop(r.tracks, 1, steps)
                  Generated(steps) ==
                      FindAndFetch(r.auto, r.auto.lang, "auto", "no_auto_en",
                                   steps, Translate)
              IN FindAndFetch(r.human, r.human.lang, "human", "no_human_en",
                              <<"list_transcripts_ok">>, Generated)
    ELSE IF r.has_get
    THEN IF r.legacy.get = "ok"
         THEN Return(segments_to_text(r.legacy.segs), "en", FALSE,
                     <<"legacy_get_transcript_ok">>)
         ELSE Return(None, NoneAtom, FALSE, <<"legacy_error">>)
    ELSE Return(None, NoneAtom, FALSE, <<"api_missing">>)

\* the handlers with the last one missing: only the library's exceptions
\* are caught
CatchLibraryOnly(res, libStep, otherStep) ==
    IF res.kind = "raise" /\ res.exc \in {"NoTranscriptFound", "TranscriptsDisabled",
                                           "CouldNotRetrieveTranscript"}
    THEN Return(None, NoneAtom, FALSE, Append(res.info, libStep))
    ELSE res

\* the handlers of an adapter (app.py:194-199, 252-254; ingestor.py:125-128,
\* 159-160): every Exception becomes the absent result.
CatchAll(res, libStep, otherStep) ==
    IF res.kind # "raise" THEN res
    ELSE Return(None, NoneAtom, FALSE,
                Append(res.info,
                       IF res.exc \in {"NoTranscriptFound", "TranscriptsDisabled",
                                       "CouldNotRetrieveTranscript"}
                       THEN libStep ELSE otherStep))

\* fetch_with_youtube_transcript_api (app.py:145)
fetch_with_youtube_transcript_api(r) == CatchAll(YtaTry(r), "yta_exception", "yta_generic")

\* the try block of try_yta (ingestor.py:112-124): list_transcripts is called
\* without a test that it exists, and the found track's language is not read.
TryYtaTry(r) ==
    IF ~r.has_list THEN Raise("AttributeError", <<>>)
    ELSE IF r.list # "ok" THEN Raise(r.list, <<>>)
    ELSE LET Translate(steps) == TranslateLoop(r.tracks, 1, steps)
             Generated(steps) ==
                 FindAndFetch(r.auto, "en", "auto", "no_auto_en", steps, Translate)
         IN FindAndFetch(r.human, "en", "human", "no_human_en", <<>>, Generated)

\* a result of the ingestor, which returns (txt, lang, translated) only
NoInfo(res) == [res EXCEPT !.info = <<>>]

\* try_yta (ingestor.py:109)
try_yta(r) == NoInfo(CatchAll(TryYtaTry(r), "yta_exception", "yta_generic"))

\* A caption-track map (data["subtitles"], data["automatic_captions"]) is a
\* dict, which keeps the order of insertion: a sequence of [lang, list] with
\* distinct languages, list being the track's descriptors, each with a url
\* (NoneAtom when it has none).
HasKey(tracks, lang) == \E i \in 1..Len(tracks) : tracks[i].lang = lang

\* tracks[lang]
Lookup(tracks, lang) ==
    tracks[CHOOSE i \in 1..Len(tracks) : tracks[i].lang = lang].list

\* the preferred keys of one keyset (app.py:221-222)
RECURSIVE PreferredKeys(_, _, _)
PreferredKeys(kind, keyset, i) ==
    IF i > Len(langs_en) THEN <<>>
    ELSE (IF HasKey(keyset, langs_en[i]) THEN <<[kind |-> kind, lang |-> langs_en[i]]>>
          ELSE <<>>) \o PreferredKeys(kind, keyset, i + 1)

\* ordered_keys (app.py:219-231); <<>> when there is no caption track at all
OrderedKeys(subs, autos) ==
    LET preferred == PreferredKeys("human", subs, 1) \o PreferredKeys("auto", autos, 1)
    IN IF preferred # <<>> THEN preferred
       ELSE IF subs # <<>> THEN <<[kind |-> "human", lang |-> subs[1].lang]>>
       ELSE IF autos # <<>> THEN <<[kind |-> "auto", lang |-> autos[1].lang]>>
       ELSE <<>>

\* requests.get(url) and what follows it (app.py:244-250, ingestor.py:156-158)
Download(r, url, lang, steps) ==
    IF r.get[url].get # "ok" THEN Raise(r.get[url].get, steps)
    ELSE IF ~r.get[url].ok THEN Return(None, NoneAtom, FALSE, Append(steps, "http_error"))
    ELSE Return(vtt_to_text(r.get[url].text), lang, FALSE, Append(steps, "fetched_vtt"))

\* the try block of fetch_with_ytdlp (app.py:205-250): only the first of the
\* ordered keys is looked at.
YtdlpTry(r) ==
    IF r.import # "ok" THEN Raise(r.import, <<>>)
    ELSE IF r.extract # "ok" THEN Raise(r.extract, <<>>)
    ELSE LET steps   == <<"subs_keys", "auto_keys">>
             ordered == OrderedKeys(r.subs, r.autos)
         IN IF ordered = <<>>
            THEN Return(None, NoneAtom, FALSE, Append(steps, "no_caption_tracks"))
            ELSE LET lang == ordered[1].lang
                     lst  == Lookup(IF ordered[1].kind = "human" THEN r.subs ELSE r.autos,
                                    lang)
                 IN IF lst = <<>>
                    THEN Return(None, NoneAtom, FALSE, Append(steps, "empty_track_list"))
                    ELSE IF lst[1].url = NoneAtom
                    THEN Return(None, NoneAtom, FALSE, Append(steps, "no_url_in_track"))
                    ELSE Download(r, lst[1].url, lang, steps)

\* fetch_with_ytdlp without its handler: what the try block raises reaches
\* the caller
FetchWithYtdlpNoHandler(r) == YtdlpTry(r)

\* fetch_with_ytdlp (app.py:201)
fetch_with_ytdlp(r) == CatchAll(YtdlpTry(r), "ytdlp_exception", "ytdlp_exception")

\* lst and lst[0].get("url") (ingestor.py:148, 151)
HasUrl(lst) == lst # <<>> /\ lst[1].url # NoneAtom

\* pick (ingestor.py:146-152): (url, lang), (NoneAtom, NoneAtom) for none
pick(tracks) ==
    LET preferred == {i \in 1..Len(langs_en) :
                         HasKey(tracks, langs_en[i]) /\ HasUrl(Lookup(tracks, langs_en[i]))}
        any       == {j \in 1..Len(tracks) : HasUrl(tracks[j].list)}
    IN IF preferred # {}
       THEN LET i == CHOOSE x \in preferred : \A y \in preferred : x <= y
            IN [url |-> Lookup(tracks, langs_en[i])[1].url, lang |-> langs_en[i]]
       ELSE IF any # {}
       THEN LET j == CHOOSE x \in any : \A y \in any : x <= y
            IN [url |-> tracks[j].list[1].url, lang |-> tracks[j].lang]
       ELSE [url |-> NoneAtom, lang |-> NoneAtom]

\* the try block of try_ytdlp (ingestor.py:132-158)
TryYtdlpTry(r) ==
    IF r.import # "ok" THEN Raise(r.import, <<>>)
    ELSE IF r.extract # "ok" THEN Raise(r.extract, <<>>)
    ELSE LET human  == pick(r.subs)
             chosen == IF human.url # NoneAtom THEN human ELSE pick(r.autos)
         IN IF chosen.url = NoneAtom THEN Return(None, NoneAtom, FALSE, <<>>)
            ELSE Download(r, chosen.url, chosen.lang, <<>>)

\* try_ytdlp (ingestor.py:130)
try_ytdlp(r) == NoInfo(CatchAll(TryYtdlpTry(r), "ytdlp_exception", "ytdlp_exception"))

-----------------------------------------------------------------------------
(* The transcript fallback orchestrator *)

\* the second adapter's result, when the first one gave no text
Fallback(first, second) ==
    IF first.kind = "raise" THEN first
    ELSE IF Truthy(first.txt) THEN first
    ELSE IF second.kind = "raise" THEN second
    ELSE Return(second.txt, second.lang, second.trans,
                <<first.info, second.info>>)

\* if txt (app.py:264, 287), if text (ingestor.py:177), of a result
HasText(res) == res.kind = "return" /\ Truthy(res.txt)

\* fetch_transcript_text (app.py:256): r.yta and r.dlp are what the primary
\* and the secondary capability answer for the video.
fetch_transcript_text(r) ==
    Fallback(fetch_with_youtube_transcript_api(r.yta), fetch_with_ytdlp(r.dlp))

\* text, lang, translated of main (ingestor.py:174-176)
ingestor_acquire(r) == NoInfo(Fallback(try_yta(r.yta), try_ytdlp(r.dlp)))

-----------------------------------------------------------------------------
(* The feed and the rows *)

\* the display names of YOUTUBERS, in the order of the dict (app.py:26-35,
\* ingestor.py:15-24)
YOUTUBERS ==
    <<"InvestAnswers", "Coin Bureau", "Mark Moss", "CTO Larsson",
      "Benjamin Cowen", "Bitcoin Magazine", "George Gammon", "ArkInvest">>

\* how many of the channels a pass of the model goes through
NumChannels == 2

\* pub[:10]
PublishedLen == 10

\* "Transcript unavailable." (app.py:298, ingestor.py:183)
TranscriptUnavailable ==
    <<"T","r","a","n","s","c","r","i","p","t"," ","u","n","a","v","a","i","l","a","b","l","e",".">>

\* "Error fetching latest video: " (app.py:322)
ErrorFetching ==
    <<"E","r","r","o","r"," ","f","e","t","c","h","i","n","g"," ","l","a","t","e","s","t"," ","v","i","d","e","o",":"," ">>

\* "Error: " (ingestor.py:194)
ErrorColon ==
    <<"E","r","r","o","r",":"," ">>

\* rss_latest_video (app.py:99): f is what the feed answers.  noEntries is
\* the message of the RuntimeError, which is all the two copies differ in.
LatestVideo(f, noEntries) ==
    IF f.get # "ok" THEN Raise(f.get, <<>>)
    ELSE IF ~f.ok THEN Raise("HTTPError", <<>>)
    ELSE IF f.malformed THEN Raise("ExpatError", <<>>)
    ELSE IF f.entries = <<>> THEN Raise(noEntries, <<>>)
    ELSE LET entry == f.entries[1]
         IN [kind |-> "return",
             vid   |-> entry.vid,
             title |-> entry.title,
             href  |-> IF entry.link.is_dict THEN <<entry.link.href>>
                       ELSE <<"https://www.youtube.com/watch?v=", entry.vid>>,
             pub_date |-> Prefix(entry.published, PublishedLen)]

rss_latest_video(f) == LatestVideo(f, "No entries found in RSS feed")

\* rss_latest_video (ingestor.py:86)
ingestor_rss_latest_video(f) == LatestVideo(f, "No entries")

NoEntities == [tickers |-> <<>>, macro |-> <<>>, actions |-> <<>>, levels |-> <<>>]

\* the row of the except branch (app.py:317-328, ingestor.py:192-197); the
\* message of the exception is one element of the summary
ErrorRow(name, prefix, e) ==
    [Name |-> name, VideoTitle |-> "Unavailable", Published |-> <<>>, URL |-> <<>>,
     Summary |-> Append(prefix, e), Sentiment |-> "Unknown", KeyPoints |-> <<>>,
     Entities |-> NoEntities, TranscriptNote |-> <<>>, VideoID |-> NoneAtom]

\* the row of the try branch (app.py:303-314, ingestor.py:185-189)
VideoRow(name, v, sig) ==
    [Name |-> name, VideoTitle |-> v.title, Published |-> v.pub_date, URL |-> v.href,
     Summary |-> sig.summary, Sentiment |-> sig.sentiment, KeyPoints |-> sig.bullets,
     Entities |-> sig.ents, TranscriptNote |-> sig.note, VideoID |-> v.vid]

\* transcript_note (app.py:295), note (ingestor.py:181)
TranscriptNote(lang, translated) ==
    IF translated /\ lang # NoneAtom THEN <<"auto-translated from", lang>>
    ELSE IF lang # NoneAtom THEN <<"lang", lang>>
    ELSE <<>>

\* the else branch (app.py:297-301, ingestor.py:183-184)
NoTranscriptSignal ==
    [summary |-> TranscriptUnavailable, sentiment |-> "Unknown", ents |-> NoEntities,
     bullets |-> <<>>, note |-> <<>>]

\* the if branch of app.py (288-295), given the classifier's label: the
\* summary is made from the sample, the entities and the key points from the
\* full text.
AppSignal(tx, src_lang, was_translated, label) ==
    LET full   == tidy_text(tx)
        sample == Prefix(full, SampleLen)
    IN [summary   |-> quick_summary(sample),
        sentiment |-> label_to_icon(label),
        ents      |-> extract_entities(full),
        bullets   |-> pick_key_points(full, DefaultK),
        note      |-> TranscriptNote(src_lang, was_translated)]

\* the if branch of ingestor.py (178-181)
IngestorSignal(text, lang, translated) ==
    LET full   == tidy_text(text)
        sample == Prefix(full, SampleLen)
    IN [summary   |-> summary(sample),
        sentiment |-> rule_sentiment(sample),
        ents      |-> ingestor_extract_entities(full),
        bullets   |-> ingestor_pick_key_points(full, DefaultK),
        note      |-> TranscriptNote(lang, translated)]

-----------------------------------------------------------------------------
(* One iteration of the loop over the channels *)

\* the loop's locals that hold the video, before the first assignment
Unbound == [video_id |-> NoneAtom, video_title |-> NoneAtom, video_url |-> <<>>,
            published |-> <<>>]

\* video_id, video_title, video_url, published = rss_latest_video(...)
Bound(v) == [video_id |-> v.vid, video_title |-> v.title, video_url |-> v.href,
             published |-> v.pub_date]

\* the except branch with the title taken from the locals, which hold the
\* previous channel's video
AppFailedStale(name, e, c, events) ==
    [appended |-> <<[ErrorRow(name, ErrorFetching, e) EXCEPT !.VideoTitle = c.video_title]>>,
     cur |-> c, events |-> Append(events, "sleep")]

\* the except branch without the append
AppFailedNoRow(name, e, c, events) ==
    [appended |-> <<>>, cur |-> c, events |-> Append(events, "sleep")]

\* the except branch of app.py (316-329): the error row, then the delay
AppFailed(name, e, c, events) ==
    [appended |-> <<ErrorRow(name, ErrorFetching, e)>>, cur |-> c,
     events |-> Append(events, "sleep")]

\* the body of the loop of fetch_and_analyze_daily (app.py:282-329) for the
\* channel called name: in is what the feed, the two transcript capabilities
\* and the classifier answer, c the locals.  The result is the rows appended
\* to rows, the locals and the external calls and delays made.
AppIteration(name, in, c) ==
    LET v == rss_latest_video(in.feed)
    IN IF v.kind = "raise" THEN AppFailed(name, v.exc, c, <<"feed">>)
       ELSE LET t == fetch_transcript_text(in)
            IN IF t.kind = "raise"
               THEN AppFailed(name, t.exc, Bound(v), <<"feed", "acquire">>)
               ELSE IF ~Truthy(t.txt)
               THEN [appended |-> <<VideoRow(name, v, NoTranscriptSignal)>>, cur |-> Bound(v),
                     events |-> <<"feed", "acquire">>]
               ELSE IF in.cls = "error"
               THEN AppFailed(name, "RuntimeError", Bound(v),
                              <<"feed", "acquire", "classify">>)
               ELSE [appended |-> <<VideoRow(name, v, AppSignal(t.txt, t.lang, t.trans,
                                                                in.cls))>>,
                     cur |-> Bound(v), events |-> <<"feed", "acquire", "classify">>]

\* the except branch of ingestor.py (191-197): the error row, no delay
IngestorFailed(name, e, c, events) ==
    [appended |-> <<ErrorRow(name, ErrorColon, e)>>, cur |-> c, events |-> events]

\* the body of the loop of main (ingestor.py:172-197)
IngestorIteration(name, in, c) ==
    LET v == ingestor_rss_latest_video(in.feed)
    IN IF v.kind = "raise" THEN IngestorFailed(name, v.exc, c, <<"feed">>)
       ELSE LET t == ingestor_acquire(in)
            IN IF t.kind = "raise"
               THEN IngestorFailed(name, t.exc, Bound(v), <<"feed", "acquire">>)
               ELSE [appended |-> <<VideoRow(name, v,
                                             IF Truthy(t.txt)
                                             THEN IngestorSignal(t.txt, t.lang, t.trans)
                                             ELSE NoTranscriptSignal)>>,
                     cur |-> Bound(v), events |-> <<"feed", "acquire", "sleep">>]

-----------------------------------------------------------------------------
(* What the outside answers: the responses the model draws from *)

\* a transcript: one sentence of more than 30 characters
TextBuy ==
    <<"B","u","y"," ","$","B","T","C"," ","n","o","w",","," ","t","a","r","g","e","t"," ","$","4","5",",","0","0","0",","," ","u","p"," ","5","%"," ","t","o","d","a","y","!">>

\* a transcript with a short sentence and a run of white space
TextSell ==
    <<"S","e","l","l","."," "," ","M","a","r","k","e","t","s"," ","d","u","m","p">>

\* a WebVTT payload
VttWeak ==
    <<"W","E","B","V","T","T","\n","\n","1","\n","0","0",":","0","1"," ","-","-",">"," ","0","0",":","0","2","\n","E","T","H"," ","l","o","o","k","s"," ","w","e","a","k"," ","n","e","a","r"," ","s","u","p","p","o","r","t",".","\n">>

\* the published field of a feed entry
Published ==
    <<"2","0","2","4","-","0","5","-","0","6","T","0","7",":","0","8",":","0","9","+","0","0",":","0","0">>

FeedEntry(vid, title, is_dict) ==
    [vid |-> vid, title |-> title, link |-> [is_dict |-> is_dict, href |-> "href"],
     published |-> Published]

FeedOf(get, ok, malformed, entries) ==
    [get |-> get, ok |-> ok, malformed |-> malformed, entries |-> entries]

\* a feed with two entries, the newest first
FeedTwo == FeedOf("ok", TRUE, FALSE, <<FeedEntry("vidA", "Title A", TRUE),
                                       FeedEntry("vidB", "Title B", FALSE)>>)
\* a feed whose only entry has a link that is no dict
FeedOne == FeedOf("ok", TRUE, FALSE, <<FeedEntry("vidB", "Title B", FALSE)>>)
FeedTimeout == FeedOf("Exception", TRUE, FALSE, <<>>)
FeedHttpError == FeedOf("ok", FALSE, FALSE, <<>>)
FeedMalformed == FeedOf("ok", TRUE, TRUE, <<>>)
FeedEmpty == FeedOf("ok", TRUE, FALSE, <<>>)

FeedFails(f) == f.get # "ok" \/ ~f.ok \/ f.malformed \/ f.entries = <<>>

\* a list of segments with one text
Segs(text) == <<[text |-> text]>>

\* what find_transcript / find_generated_transcript and the fetch of the
\* found track answer
Found(lang, fetch, segs) == [find |-> "ok", lang |-> lang, fetch |-> fetch, segs |-> segs]
NotFound(exc) == [find |-> exc, lang |-> "en", fetch |-> "ok", segs |-> <<>>]

\* a track of the list, with what translate("en") and the fetch of the
\* translation answer
Track(lang, translate, tfetch, tsegs) ==
    [lang |-> lang, translate |-> translate, tfetch |-> tfetch, tsegs |-> tsegs]

\* what the primary capability answers
Yta(has_list, has_get, list, human, auto, tracks, legacy) ==
    [has_list |-> has_list, has_get |-> has_get, list |-> list, human |-> human,
     auto |-> auto, tracks |-> tracks, legacy |-> legacy]

LegacyFails == [get |-> "Exception", segs |-> <<>>]

\* the current API: list, human, auto, tracks
YtaList(list, human, auto, tracks) ==
    Yta(TRUE, TRUE, list, human, auto, tracks, LegacyFails)

YtaNothing == YtaList("ok", NotFound("NoTranscriptFound"), NotFound("NoTranscriptFound"), <<>>)
YtaDisabled == YtaList("TranscriptsDisabled", NotFound("NoTranscriptFound"),
                       NotFound("NoTranscriptFound"), <<>>)
YtaTimeout == YtaList("Exception", NotFound("NoTranscriptFound"),
                      NotFound("NoTranscriptFound"), <<>>)
\* neither list_transcripts nor get_transcript: the API is missing
YtaMissing == Yta(FALSE, FALSE, "ok", NotFound("NoTranscriptFound"),
                  NotFound("NoTranscriptFound"), <<>>, LegacyFails)

\* what a GET of a caption URL answers
Got(get, ok, text) == [get |-> get, ok |-> ok, text |-> text]

\* the URLs of the descriptors
Urls == {"u1", "u2"}

\* what the secondary capability answers; get maps each URL to its answer
Dlp(import, extract, subs, autos, get) ==
    [import |-> import, extract |-> extract, subs |-> subs, autos |-> autos, get |-> get]

AllGet(g) == [u \in Urls |-> g]

CaptionTrack(lang, list) == [lang |-> lang, list |-> list]
Descriptor(url) == [url |-> url]

DlpMissing == Dlp("ImportError", "ok", <<>>, <<>>, AllGet(Got("Exception", FALSE, <<>>)))
DlpError == Dlp("ok", "Exception", <<>>, <<>>, AllGet(Got("Exception", FALSE, <<>>)))
DlpNoTracks == Dlp("ok", "ok", <<>>, <<>>, AllGet(Got("Exception", FALSE, <<>>)))
DlpVtt == Dlp("ok", "ok", <<CaptionTrack("en", <<Descriptor("u1")>>)>>, <<>>,
              AllGet(Got("ok", TRUE, VttWeak)))
DlpHttpError == Dlp("ok", "ok", <<>>, <<CaptionTrack("de", <<Descriptor("u2")>>)>>,
                    AllGet(Got("ok", FALSE, <<>>)))

\* a pair of answers of the two transcript capabilities
Acq(yta, dlp) == [yta |-> yta, dlp |-> dlp]

\* the answers a channel of a pass can get from the transcript capabilities
PassAcqs ==
    {Acq(YtaList("ok", Found("en-US", "ok", Segs(TextBuy)), NotFound("NoTranscriptFound"), <<>>),
         DlpError),
     Acq(YtaList("ok", NotFound("NoTranscriptFound"), NotFound("NoTranscriptFound"),
                 <<Track("de", "ok", "ok", Segs(TextSell))>>), DlpNoTracks),
     Acq(YtaTimeout, DlpVtt),
     Acq(YtaNothing, DlpHttpError),
     Acq(YtaDisabled, DlpError),
     Acq(YtaMissing, DlpMissing),
     Acq(YtaMissing, DlpVtt)}

\* the labels of the classifier; "error" is a call that raises, "unused" a
\* classifier that is not called
Labels == {"POSITIVE", "NEGATIVE", "NEUTRAL"}

PassFeeds == {FeedTwo, FeedTimeout, FeedEmpty}

Input(feed, a, cls) == [feed |-> feed, yta |-> a.yta, dlp |-> a.dlp, cls |-> cls]

\* an answer that is never asked for
Unasked == Acq(YtaNothing, DlpNoTracks)

\* What one iteration of app.py can get: the transcript capabilities are asked
\* only when the feed gave a video, the classifier only when there is text.
AppInputs ==
    {Input(f, Unasked, "unused") : f \in {g \in PassFeeds : FeedFails(g)}}
    \cup {Input(f, a, "unused") :
            f \in {g \in PassFeeds : ~FeedFails(g)},
            a \in {b \in PassAcqs : ~HasText(fetch_transcript_text(b))}}
    \cup {Input(f, a, c) :
            f \in {g \in PassFeeds : ~FeedFails(g)},
            a \in {b \in PassAcqs : HasText(fetch_transcript_text(b))},
            c \in Labels \cup {"error"}}

\* What one iteration of ingestor.py can get: it has no classifier.
IngestorInputs ==
    {Input(f, Unasked, "unused") : f \in {g \in PassFeeds : FeedFails(g)}}
    \cup {Input(f, a, "unused") : f \in {g \in PassFeeds : ~FeedFails(g)}, a \in PassAcqs}

-----------------------------------------------------------------------------
(* The pass *)

\* the variables of the other specifications, at rest
KpIdle == [phase |-> "idle"]
PairIdle == [phase |-> "idle"]
AcqIdle == [phase |-> "idle"]
ShadowIdle == [phase |-> "idle"]

Init ==
    /\ prog \in {"app", "ingestor"}
    /\ pc = "start"
    /\ idx = 1
    /\ rows = <<>>
    /\ cur = Unbound
    /\ inputs = <<>>
    /\ log = <<>>
    /\ shadow = ShadowIdle
    /\ kp = KpIdle
    /\ pair = PairIdle
    /\ acq = AcqIdle

\* sentiment = get_sentiment_pipeline() (app.py:277): the classifier is there,
\* or the import or the model load raises and the pass ends with it.
GetSentimentPipeline ==
    /\ pc = "start"
    /\ prog = "app"
    /\ \E available \in BOOLEAN :
          /\ pc' = IF available THEN "loop" ELSE "aborted"
          /\ log' = Append(log, <<0, IF available THEN "pipeline" ELSE "pipeline raises">>)
    /\ UNCHANGED <<prog, idx, rows, cur, inputs, shadow, kp, pair, acq>>

\* cookies_path, rows = [] (ingestor.py:169-170)
IngestorStart ==
    /\ pc = "start"
    /\ prog = "ingestor"
    /\ pc' = "loop"
    /\ UNCHANGED <<prog, idx, rows, cur, inputs, log, shadow, kp, pair, acq>>

\* the effect of one iteration on the pass
Iterate(it, in) ==
    /\ rows' = rows \o it.appended
    /\ cur' = it.cur
    /\ inputs' = Append(inputs, in)
    /\ log' = log \o [k \in 1..Len(it.events) |-> <<idx, it.events[k]>>]
    /\ idx' = idx + 1

\* one iteration of the loop of fetch_and_analyze_daily (app.py:281-329)
AppChannel ==
    /\ pc = "loop"
    /\ prog = "app"
    /\ idx <= NumChannels
    /\ \E in \in AppInputs : Iterate(AppIteration(YOUTUBERS[idx], in, cur), in)
    /\ UNCHANGED <<prog, pc, shadow, kp, pair, acq>>

\* one iteration of the loop of main (ingestor.py:171-197)
IngestorChannel ==
    /\ pc = "loop"
    /\ prog = "ingestor"
    /\ idx <= NumChannels
    /\ \E in \in IngestorInputs : Iterate(IngestorIteration(YOUTUBERS[idx], in, cur), in)
    /\ UNCHANGED <<prog, pc, shadow, kp, pair, acq>>

\* after the loop: the frame and the time stamp (app.py:331-333), the payload
\* written (ingestor.py:198-200)
Finish ==
    /\ pc = "loop"
    /\ idx > NumChannels
    /\ pc' = "done"
    /\ UNCHANGED <<prog, idx, rows, cur, inputs, log, shadow, kp, pair, acq>>

Next == GetSentimentPipeline \/ IngestorStart \/ AppChannel \/ IngestorChannel \/ Finish

Spec == Init /\ [][Next]_vars

-----------------------------------------------------------------------------
(* Properties of the pass *)

\* the transcript text the fallback chain returned for the channel of the
\* i-th iteration; None when the chain was not reached
AcquiredText(i) ==
    LET t == IF prog = "app" THEN fetch_transcript_text(inputs[i])
             ELSE ingestor_acquire(inputs[i])
    IN IF FeedFails(inputs[i].feed) \/ ~HasText(t) THEN None ELSE t.txt

\* every external call of the i-th iteration failed
AllCallsFail(in) ==
    \/ FeedFails(in.feed)
    \/ /\ in.yta.has_list /\ in.yta.list # "ok"
       /\ in.dlp.extract # "ok"

\* C1: a completed pass has exactly one row per configured channel, in the
\* order of the configuration, whatever the external calls answered; and
\* while the loop runs there is one row per channel gone through.
C1_OneRowPerChannel ==
    /\ pc \in {"loop", "done"} =>
          /\ Len(rows) = idx - 1
          /\ \A i \in 1..Len(rows) : rows[i].Name = YOUTUBERS[i]
    /\ pc = "done" => Len(rows) = NumChannels

\* a completed pass in which every network call failed for every channel,
\* some at the feed and some at both transcript capabilities
C1_Witness ==
    /\ pc = "done"
    /\ Len(rows) = NumChannels
    /\ \A i \in 1..Len(inputs) : AllCallsFail(inputs[i])
    /\ \E i \in 1..Len(inputs) : FeedFails(inputs[i].feed)
    /\ \E i \in 1..Len(inputs) : ~FeedFails(inputs[i].feed)

\* C2: in every row the sentiment is Unknown exactly when the transcript text
\* of the channel was absent, also when a later step such as the classifier
\* call fails.
C2_UnknownIffNoText ==
    \A i \in 1..Len(rows) :
        (rows[i].Sentiment = "Unknown") <=> ~Truthy(AcquiredText(i))

\* the primary transcript API is missing: the program finds neither method
\* it knows of (ingestor.py knows list_transcripts only)
PrimaryMissing(in) ==
    ~in.yta.has_list /\ (prog = "app" => ~in.yta.has_get)

\* the secondary extraction library is missing
SecondaryMissing(in) == in.dlp.import = "ImportError"

\* the classifier was found missing when the pass began
ClassifierMissing == log = <<<<0, "pipeline raises">>>>

\* C9 as claimed: a missing capability (the classifier, the primary API, the
\* secondary library) aborts the whole pass and is never swallowed into an
\* adapter miss or an error row; other failures never abort it.
C9_MissingCapabilityAborts ==
    /\ ClassifierMissing => pc = "aborted"
    /\ \A i \in 1..Len(inputs) :
          (~FeedFails(inputs[i].feed)
             /\ (PrimaryMissing(inputs[i]) \/ SecondaryMissing(inputs[i])))
          => pc = "aborted"
    /\ pc = "aborted" => ClassifierMissing

\* C9, amended: a missing classifier is raised when the pass begins and
\* aborts it before any channel; a missing primary API or secondary library
\* is an adapter miss: the pass goes on, and the channel gets the row of its
\* video (the row of no transcript when both are missing), not an error row;
\* no failure of a call aborts the pass.
C9_MissingAdapterIsAMiss ==
    /\ (pc = "aborted") = ClassifierMissing
    /\ pc = "aborted" => prog = "app" /\ rows = <<>> /\ inputs = <<>>
    /\ \A i \in 1..Len(inputs) :
          (~FeedFails(inputs[i].feed)
             /\ (PrimaryMissing(inputs[i]) \/ SecondaryMissing(inputs[i])))
          => /\ i <= Len(rows)
             /\ inputs[i].cls # "error" => rows[i].VideoID = inputs[i].feed.entries[1].vid
             /\ (PrimaryMissing(inputs[i]) /\ SecondaryMissing(inputs[i]))
                   => rows[i].Summary = TranscriptUnavailable

\* a completed pass with a channel for which both transcript capabilities
\* were missing
C9_Witness ==
    /\ pc = "done"
    /\ \E i \in 1..Len(inputs) :
          /\ ~FeedFails(inputs[i].feed)
          /\ PrimaryMissing(inputs[i])
          /\ SecondaryMissing(inputs[i])
          /\ rows[i].Summary = TranscriptUnavailable

-----------------------------------------------------------------------------
(* The fallback chain on its own: one call of the orchestrator, for every  *)
(* combination of answers of the two capabilities.                         *)

\* the longest list of tracks the translation step goes through
MaxTracks == 2

\* the texts of the sources, each its own
TextHuman == <<"H", "u", "m", "a", "n", ".">>
TextGenerated == <<"A", "u", "t", "o", ".">>
TextLegacy == <<"O", "l", "d", ".">>
TrackLangs == <<"de", "fr", "ja", "es">>
TrackTexts == <<<<"E", "i", "n", "s", ".">>, <<"D", "e", "u", "x", ".">>,
                <<"S", "a", "n", ".">>, <<"C", "u", "a", "t", "r", "o", ".">>>>

\* what find and fetch of a preferred-language track can answer: no such
\* track, a failing find, a track with text, a track without text, a fetch
\* that fails, a fetch that finds the track gone
FindAnswers(text) ==
    {NotFound("NoTranscriptFound"), NotFound("Exception"),
     Found("en-US", "ok", Segs(text)), Found("en", "ok", <<>>),
     Found("en", "CouldNotRetrieveTranscript", <<>>), Found("en", "NoTranscriptFound", <<>>)}

\* what the i-th track of the list can answer to translate("en") and fetch
TrackAnswers(i) ==
    {Track(TrackLangs[i], "absent", "ok", <<>>),
     Track(TrackLangs[i], "Exception", "ok", <<>>),
     Track(TrackLangs[i], "ok", "Exception", <<>>),
     Track(TrackLangs[i], "ok", "ok", <<>>),
     Track(TrackLangs[i], "ok", "ok", Segs(TrackTexts[i]))}

\* the lists of n tracks
RECURSIVE TrackLists(_)
TrackLists(n) ==
    IF n = 0 THEN {<<>>}
    ELSE {Append(ts, t) : ts \in TrackLists(n - 1), t \in TrackAnswers(n)}

\* the answers of the primary capability
YtaAnswers ==
    {YtaDisabled, YtaTimeout, YtaMissing,
     Yta(FALSE, TRUE, "ok", NotFound("NoTranscriptFound"), NotFound("NoTranscriptFound"),
         <<>>, [get |-> "ok", segs |-> Segs(TextLegacy)]),
     Yta(FALSE, TRUE, "ok", NotFound("NoTranscriptFound"), NotFound("NoTranscriptFound"),
         <<>>, LegacyFails)}
    \cup {YtaList("ok", h, g, ts) :
            h \in FindAnswers(TextHuman), g \in FindAnswers(TextGenerated),
            ts \in UNION {TrackLists(n) : n \in 0..MaxTracks}}

\* the answers of the secondary capability
DlpAnswers == {DlpMissing, DlpError, DlpNoTracks, DlpVtt, DlpHttpError}

InitAcquire ==
    /\ prog \in {"app", "ingestor"}
    /\ pc = "acquire"
    /\ idx = 1
    /\ rows = <<>>
    /\ cur = Unbound
    /\ inputs = <<>>
    /\ log = <<>>
    /\ shadow = ShadowIdle
    /\ kp = KpIdle
    /\ pair = PairIdle
    /\ \E y \in YtaAnswers, d \in DlpAnswers : acq = [phase |-> "call", r |-> Acq(y, d)]

\* tx, src_lang, was_translated, dbg = fetch_transcript_text(video_id)
\* (app.py:284)
AppAcquire ==
    /\ pc = "acquire"
    /\ prog = "app"
    /\ acq.phase = "call"
    /\ acq' = [phase |-> "returned", r |-> acq.r, res |-> fetch_transcript_text(acq.r)]
    /\ UNCHANGED <<prog, pc, idx, rows, cur, inputs, log, shadow, kp, pair>>

\* text, lang, translated = try_yta(vid), and try_ytdlp(vid, cookies_path) if
\* not text (ingestor.py:174-176)
IngestorAcquire ==
    /\ pc = "acquire"
    /\ prog = "ingestor"
    /\ acq.phase = "call"
    /\ acq' = [phase |-> "returned", r |-> acq.r, res |-> ingestor_acquire(acq.r)]
    /\ UNCHANGED <<prog, pc, idx, rows, cur, inputs, log, shadow, kp, pair>>

NextAcquire == AppAcquire \/ IngestorAcquire

SpecAcquire == InitAcquire /\ [][NextAcquire]_vars

-----------------------------------------------------------------------------
(* Properties of the fallback chain *)

\* the text a found and fetched track has; nothing otherwise
TrackText(found) ==
    IF found.find = "ok" /\ found.fetch = "ok" THEN segments_to_text(found.segs) ELSE <<>>

\* the tracks whose translation succeeds and has text
Translatable(tracks) ==
    {i \in 1..Len(tracks) :
        /\ tracks[i].translate = "ok"
        /\ tracks[i].tfetch = "ok"
        /\ Truthy(segments_to_text(tracks[i].tsegs))}

\* the first of them
FirstTranslatable(tracks) ==
    CHOOSE i \in Translatable(tracks) : \A j \in Translatable(tracks) : i <= j

\* the text the translation source has; nothing when no track translates
TranslatedText(tracks) ==
    IF Translatable(tracks) = {} THEN <<>>
    ELSE segments_to_text(tracks[FirstTranslatable(tracks)].tsegs)

\* the text the secondary adapter has for the call; nothing when it fails
SecondaryText ==
    LET s == IF prog = "app" THEN fetch_with_ytdlp(acq.r.dlp) ELSE try_ytdlp(acq.r.dlp)
    IN IF HasText(s) THEN s.txt ELSE <<>>

\* the texts of the four sources, in the order of the policy; the first three
\* are there when the list of transcripts is
Sources ==
    LET y == acq.r.yta
    IN IF y.list = "ok"
       THEN <<TrackText(y.human), TrackText(y.auto), TranslatedText(y.tracks), SecondaryText>>
       ELSE <<<<>>, <<>>, <<>>, SecondaryText>>

\* C3: the call returns the text of the first of the four sources, in the
\* order human, generated, translated, secondary, that has text, and no text
\* only when none of the four has any.
C3_FirstSourceWithText ==
    (acq.phase = "returned" /\ acq.r.yta.has_list) =>
        LET with == {i \in 1..4 : Truthy(Sources[i])}
        IN IF with = {} THEN ~HasText(acq.res)
           ELSE /\ acq.res.kind = "return"
                /\ acq.res.txt = Sources[CHOOSE i \in with : \A j \in with : i <= j]

\* what the try block of each adapter ends with for the call
PrimaryTry == IF prog = "app" THEN YtaTry(acq.r.yta) ELSE TryYtaTry(acq.r.yta)
SecondaryTry == IF prog = "app" THEN YtdlpTry(acq.r.dlp) ELSE TryYtdlpTry(acq.r.dlp)

\* C4: whatever a step of either adapter raises, the call returns: a text or
\* no text.  When the primary adapter failed, the result is the secondary
\* adapter's, and no text when that one failed as well.
C4_NeverRaises ==
    acq.phase = "returned" =>
        /\ acq.res.kind = "return"
        /\ HasText(acq.res) \/ acq.res.txt \in {None, <<>>}
        /\ PrimaryTry.kind = "raise" =>
              /\ SecondaryTry.kind = "raise" =>
                    acq.res.txt = None /\ acq.res.lang = NoneAtom /\ ~acq.res.trans
              /\ SecondaryTry.kind = "return" =>
                    /\ acq.res.txt = SecondaryTry.txt
                    /\ acq.res.lang = SecondaryTry.lang
                    /\ acq.res.trans = SecondaryTry.trans

\* the primary adapter failed on a time-out and the secondary one gave text
C4_Witness ==
    /\ acq.phase = "returned"
    /\ PrimaryTry.kind = "raise"
    /\ PrimaryTry.exc = "Exception"
    /\ SecondaryTry.kind = "return"
    /\ HasText(acq.res)

\* the translation step of the call was reached
TranslationReached ==
    LET y == acq.r.yta
    IN /\ y.has_list
       /\ y.list = "ok"
       /\ y.human.find = "NoTranscriptFound" \/ (y.human.find = "ok" /\ y.human.fetch = "NoTranscriptFound")
       /\ y.auto.find = "NoTranscriptFound" \/ (y.auto.find = "ok" /\ y.auto.fetch = "NoTranscriptFound")

\* C10: when the translation step is reached and a track has a translation
\* with text, the result is the first such track's, marked translated, with
\* that track's language; and a result marked translated comes from this
\* step, has text, and has the language of a track.
C10_FirstTranslationWithText ==
    acq.phase = "returned" =>
        LET tracks == acq.r.yta.tracks
        IN /\ acq.res.kind = "return"
           /\ (TranslationReached /\ Translatable(tracks) # {}) =>
                 /\ acq.res.txt = TranslatedText(tracks)
                 /\ acq.res.trans
                 /\ acq.res.lang = tracks[FirstTranslatable(tracks)].lang
           /\ acq.res.trans =>
                 /\ TranslationReached
                 /\ Truthy(acq.res.txt)
                 /\ \E i \in 1..Len(tracks) : tracks[i].lang = acq.res.lang

-----------------------------------------------------------------------------
(* Two passes over the same channels, side by side.  The answers of the    *)
(* outside are the same in both but for the channel shadow.c; rows and cur *)
(* are the first pass's, shadow.rows and shadow.cur the second's.          *)

\* the answers of the transcript capabilities the two passes draw from
PairAcqs ==
    {Acq(YtaList("ok", Found("en-US", "ok", Segs(TextBuy)), NotFound("NoTranscriptFound"), <<>>),
         DlpError),
     Acq(YtaTimeout, DlpVtt),
     Acq(YtaDisabled, DlpError),
     Unasked}

\* what one iteration of either pass can get
PairInputs ==
    {in \in (IF prog = "app" THEN AppInputs ELSE IngestorInputs) :
        /\ Acq(in.yta, in.dlp) \in PairAcqs
        /\ in.cls \in {"unused", "NEGATIVE", "error"}}

InitPair ==
    /\ prog \in {"app", "ingestor"}
    /\ pc = "start"
    /\ idx = 1
    /\ rows = <<>>
    /\ cur = Unbound
    /\ inputs = <<>>
    /\ log = <<>>
    /\ \E c \in 1..NumChannels :
          shadow = [phase |-> "pair", c |-> c, rows |-> <<>>, cur |-> Unbound, inputs |-> <<>>]
    /\ kp = KpIdle
    /\ pair = PairIdle
    /\ acq = AcqIdle

\* the effect of one iteration on the second pass
IterateShadow(it, in) ==
    shadow' = [shadow EXCEPT !.rows = @ \o it.appended, !.cur = it.cur,
                             !.inputs = Append(@, in)]

\* one iteration of the loop of fetch_and_analyze_daily in both passes
PairAppChannel ==
    /\ pc = "loop"
    /\ prog = "app"
    /\ idx <= NumChannels
    /\ \E in \in PairInputs, other \in PairInputs :
          /\ idx # shadow.c => other = in
          /\ Iterate(AppIteration(YOUTUBERS[idx], in, cur), in)
          /\ IterateShadow(AppIteration(YOUTUBERS[idx], other, shadow.cur), other)
    /\ UNCHANGED <<prog, pc, kp, pair, acq>>

\* one iteration of the loop of main in both passes
PairIngestorChannel ==
    /\ pc = "loop"
    /\ prog = "ingestor"
    /\ idx <= NumChannels
    /\ \E in \in PairInputs, other \in PairInputs :
          /\ idx # shadow.c => other = in
          /\ Iterate(IngestorIteration(YOUTUBERS[idx], in, cur), in)
          /\ IterateShadow(IngestorIteration(YOUTUBERS[idx], other, shadow.cur), other)
    /\ UNCHANGED <<prog, pc, kp, pair, acq>>

NextPair ==
    GetSentimentPipeline \/ IngestorStart \/ PairAppChannel \/ PairIngestorChannel \/ Finish

SpecPair == InitPair /\ [][NextPair]_vars

\* the rows of the two passes agree for every channel but shadow.c
PairRowsAgree ==
    /\ Len(rows) = Len(shadow.rows)
    /\ \A i \in 1..Len(rows) : i # shadow.c => rows[i] = shadow.rows[i]

\* a step leaves every row there is in its place and as it is
RowsKept ==
    /\ Len(rows') >= Len(rows)
    /\ \A i \in 1..Len(rows) : rows'[i] = rows[i]

\* C5: two passes whose answers differ for one channel only have the same
\* rows for every other channel, and no step of a pass changes or removes a
\* row that has been appended.
C5_ChannelsIndependent == []PairRowsAgree /\ [][RowsKept]_vars

\* two completed passes: the feed of the first channel failed in one and gave
\* a video in the other, the rows of that channel differ, and the rows of the
\* channel after it, which had text, are the same
C5_Witness ==
    /\ pc = "done"
    /\ shadow.c = 1
    /\ FeedFails(inputs[1].feed)
    /\ ~FeedFails(shadow.inputs[1].feed)
    /\ rows[1] # shadow.rows[1]
    /\ rows[2] = shadow.rows[2]
    /\ rows[2].Sentiment # "Unknown"

-----------------------------------------------------------------------------
(* pick_key_points on its own: one call, for texts made of a few sentences *)
(* and every k up to MaxK.                                                 *)

\* the largest k of a call
MaxK == 2

\* the most sentences of a text
MaxSents == 3

\* two sentences of equal score, the second in upper case as well, a
\* sentence of a higher score and one that is too short
SentZebra ==
    <<"Z","e","b","r","a"," ","m","a","r","k","e","t","s"," ","a","r","e"," ","q","u","i","e","t"," ","a","l","l"," ","d","a","y"," ","t","o","d","a","y",".">>

SentAlpha ==
    <<"A","l","p","h","a"," ","m","a","r","k","e","t","s"," ","a","r","e"," ","q","u","i","e","t"," ","a","l","l"," ","d","a","y"," ","t","o","d","a","y",".">>

SentAlphaUpper ==
    <<"A","L","P","H","A"," ","M","A","R","K","E","T","S"," ","A","R","E"," ","Q","U","I","E","T"," ","A","L","L"," ","D","A","Y"," ","T","O","D","A","Y",".">>

SentBuy ==
    <<"B","u","y"," ","$","B","T","C"," ","n","o","w",","," ","t","a","r","g","e","t"," ","$","4","5",",","0","0","0",","," ","u","p"," ","5","%"," ","t","o","d","a","y","!">>

SentShort ==
    <<"M","a","r","k","e","t","s"," ","d","u","m","p",".">>

Corpus == {SentZebra, SentAlpha, SentAlphaUpper, SentBuy, SentShort}

\* the sequences of at most n sentences
RECURSIVE SentenceLists(_)
SentenceLists(n) ==
    IF n = 0 THEN {<<>>}
    ELSE LET shorter == SentenceLists(n - 1)
         IN shorter \cup {Append(l, s) : l \in {m \in shorter : Len(m) = n - 1}, s \in Corpus}

\* the texts: the sentences with a blank between them
Texts == {join(<<" ">>, l) : l \in SentenceLists(MaxSents)}

InitKeyPoints ==
    /\ prog \in {"app", "ingestor"}
    /\ pc = "key_points"
    /\ idx = 1
    /\ rows = <<>>
    /\ cur = Unbound
    /\ inputs = <<>>
    /\ log = <<>>
    /\ shadow = ShadowIdle
    /\ \E text \in Texts, k \in 0..MaxK : kp = [phase |-> "call", text |-> text, k |-> k]
    /\ pair = PairIdle
    /\ acq = AcqIdle

\* pick_key_points(text, k) of app.py
AppPickKeyPoints ==
    /\ pc = "key_points"
    /\ prog = "app"
    /\ kp.phase = "call"
    /\ kp' = [phase |-> "returned", text |-> kp.text, k |-> kp.k,
              out |-> pick_key_points(kp.text, kp.k)]
    /\ UNCHANGED <<prog, pc, idx, rows, cur, inputs, log, shadow, pair, acq>>

\* pick_key_points(text, k) of ingestor.py
IngestorPickKeyPoints ==
    /\ pc = "key_points"
    /\ prog = "ingestor"
    /\ kp.phase = "call"
    /\ kp' = [phase |-> "returned", text |-> kp.text, k |-> kp.k,
              out |-> ingestor_pick_key_points(kp.text, kp.k)]
    /\ UNCHANGED <<prog, pc, idx, rows, cur, inputs, log, shadow, pair, acq>>

NextKeyPoints == AppPickKeyPoints \/ IngestorPickKeyPoints

SpecKeyPoints == InitKeyPoints /\ [][NextKeyPoints]_vars

-----------------------------------------------------------------------------
(* Properties of pick_key_points *)

SentencesOfCall == split_sentences(kp.text)

\* where a sentence first occurs in the text
FirstAt(s) ==
    CHOOSE p \in 1..Len(SentencesOfCall) :
        SentencesOfCall[p] = s /\ \A q \in 1..(p - 1) : SentencesOfCall[q] # s

\* C7: the key points come in descending score; of two with the same score
\* the one that is earlier in the text comes first; and a qualifying sentence
\* that was left out, and is no duplicate of a key point, has no higher score
\* than any key point and is later in the text than every key point of its
\* score.
C7_StableOrder ==
    kp.phase = "returned" =>
        /\ \A i \in 1..Len(kp.out) : \E p \in 1..Len(SentencesOfCall) : SentencesOfCall[p] = kp.out[i]
        /\ \A i, j \in 1..Len(kp.out) :
              i < j =>
                 /\ score_sentence(kp.out[i]) >= score_sentence(kp.out[j])
                 /\ score_sentence(kp.out[i]) = score_sentence(kp.out[j])
                       => FirstAt(kp.out[i]) < FirstAt(kp.out[j])
        /\ \A p \in 1..Len(SentencesOfCall) :
              LET s == SentencesOfCall[p]
              IN (/\ Len(s) > MinKeyPointLen
                  /\ \A i \in 1..Len(kp.out) : lower(strip(kp.out[i])) # lower(strip(s)))
                 => \A i \in 1..Len(kp.out) :
                       /\ score_sentence(kp.out[i]) >= score_sentence(s)
                       /\ score_sentence(kp.out[i]) = score_sentence(s) => FirstAt(kp.out[i]) < p

-----------------------------------------------------------------------------
(* Signal extraction on its own: the if branch of the loop for two         *)
(* transcripts that have the same first SampleLen characters once          *)
(* normalised, and differ behind them.                                     *)

\* how the transcripts begin, and how they go on behind the sample
LeadQuiet ==
    <<"M","a","r","k","e","t","s"," ","a","r","e"," ","q","u","i","e","t"," ","t","o","d","a","y",".">>

LeadLevels ==
    <<"B","T","C"," ","b","r","o","k","e"," ","$","4","5",",","0","0","0"," ","r","e","s","i","s","t","a","n","c","e"," ","t","o","d","a","y",","," ","u","p"," ","5","%",".">>

TailSell ==
    <<" ","S","e","l","l"," ","$","S","O","L"," ","a","t"," ","r","e","s","i","s","t","a","n","c","e",","," ","s","t","o","p"," ","$","1","5","0",","," ","d","o","w","n"," ","3","%"," ","n","o","w",","," ","s","a","y","s"," ","t","h","e"," ","d","e","s","k",".">>

TailWord ==
    <<"y","z"," ","a","n","d"," ","D","O","G","E","."," ","A","c","c","u","m","u","l","a","t","e"," ","A","D","A"," ","o","n"," ","t","h","e"," ","r","e","c","e","s","s","i","o","n"," ","d","i","p",","," ","h","e","d","g","e"," ","w","i","t","h"," ","b","o","n","d"," ","y","i","e","l","d","s","?">>

TailBlank ==
    <<" ","\n"," ">>

\* a word of n characters
Filler(n) == [i \in 1..n |-> "x"]

\* a text that is SampleLen characters long once normalised: the lead, two
\* blanks, a long word and the closing
LongText(lead, closing) ==
    lead \o <<" ", " ">> \o Filler(SampleLen - Len(lead) - 1 - Len(closing)) \o closing

\* the heads: one that ends with its sentence, one that ends in the middle
\* of a word
Heads ==
    {LongText(LeadQuiet, <<".">>), LongText(LeadLevels, <<".">>), LongText(LeadLevels, <<>>)}

Tails == {<<>>, TailSell, TailWord, TailBlank}

InitTruncation ==
    /\ prog \in {"app", "ingestor"}
    /\ pc = "extract"
    /\ idx = 1
    /\ rows = <<>>
    /\ cur = Unbound
    /\ inputs = <<>>
    /\ log = <<>>
    /\ shadow = ShadowIdle
    /\ kp = KpIdle
    /\ \E h \in Heads, s \in Tails, t \in Tails :
          pair = [phase |-> "call", a |-> h \o s, b |-> h \o t]
    /\ acq = AcqIdle

\* the if branch of the loop of app.py (288-295) for both transcripts; the
\* classifier answers the same for both
AppExtract ==
    /\ pc = "extract"
    /\ prog = "app"
    /\ pair.phase = "call"
    /\ \E label \in Labels :
          pair' = [phase |-> "returned", a |-> pair.a, b |-> pair.b,
                   sigA |-> AppSignal(pair.a, "en", FALSE, label),
                   sigB |-> AppSignal(pair.b, "en", FALSE, label)]
    /\ UNCHANGED <<prog, pc, idx, rows, cur, inputs, log, shadow, kp, acq>>

\* the if branch of the loop of ingestor.py (178-181) for both transcripts
IngestorExtract ==
    /\ pc = "extract"
    /\ prog = "ingestor"
    /\ pair.phase = "call"
    /\ pair' = [phase |-> "returned", a |-> pair.a, b |-> pair.b,
                sigA |-> IngestorSignal(pair.a, "en", FALSE),
                sigB |-> IngestorSignal(pair.b, "en", FALSE)]
    /\ UNCHANGED <<prog, pc, idx, rows, cur, inputs, log, shadow, kp, acq>>

NextTruncation == AppExtract \/ IngestorExtract

SpecTruncation == InitTruncation /\ [][NextTruncation]_vars

-----------------------------------------------------------------------------
(* Properties of the truncation *)

\* the two transcripts agree on the sample
SameSample ==
    Prefix(tidy_text(pair.a), SampleLen) = Prefix(tidy_text(pair.b), SampleLen)

\* C8: two transcripts with the same first 1024 characters of normalised
\* text get the same key points, the same entities and the same summary.
C8_OnlyTheSampleCounts ==
    (pair.phase = "returned" /\ SameSample) =>
        /\ pair.sigA.bullets = pair.sigB.bullets
        /\ pair.sigA.ents = pair.sigB.ents
        /\ pair.sigA.summary = pair.sigB.summary

-----------------------------------------------------------------------------
(* The secondary adapter on its own: one call, for every shape of the two  *)
(* caption-track maps of a video.                                          *)

\* the languages of the tracks, in the order the maps hold them: one that is
\* not preferred comes first
CaptionLangs == <<"de", "en", "en-GB">>

\* the URL of the track of a kind and a language
CaptionUrl(kind, lang) ==
    CASE kind = "human" /\ lang = "de" -> "h-de"
      [] kind = "human" /\ lang = "en" -> "h-en"
      [] kind = "human" /\ lang = "en-GB" -> "h-en-GB"
      [] kind = "auto" /\ lang = "de" -> "a-de"
      [] kind = "auto" /\ lang = "en" -> "a-en"
      [] kind = "auto" /\ lang = "en-GB" -> "a-en-GB"

CaptionUrls == {CaptionUrl(kind, lang) : kind \in {"human", "auto"}, lang \in {"de", "en", "en-GB"}}

\* the WebVTT payload behind a URL: each names its track
Payload(url) ==
    CASE url = "h-de" ->
           <<"W","E","B","V","T","T","\n","\n","0","0",":","0","1"," ","-","-",">"," ","0","0",":","0","2","\n","H","u","m","a","n"," ","d","e",".","\n">>
      [] url = "h-en" ->
           <<"W","E","B","V","T","T","\n","\n","0","0",":","0","1"," ","-","-",">"," ","0","0",":","0","2","\n","H","u","m","a","n"," ","e","n",".","\n">>
      [] url = "h-en-GB" ->
           <<"W","E","B","V","T","T","\n","\n","0","0",":","0","1"," ","-","-",">"," ","0","0",":","0","2","\n","H","u","m","a","n"," ","g","b",".","\n">>
      [] url = "a-de" ->
           <<"W","E","B","V","T","T","\n","\n","0","0",":","0","1"," ","-","-",">"," ","0","0",":","0","2","\n","A","u","t","o"," ","d","e",".","\n">>
      [] url = "a-en" ->
           <<"W","E","B","V","T","T","\n","\n","0","0",":","0","1"," ","-","-",">"," ","0","0",":","0","2","\n","A","u","t","o"," ","e","n",".","\n">>
      [] url = "a-en-GB" ->
           <<"W","E","B","V","T","T","\n","\n","0","0",":","0","1"," ","-","-",">"," ","0","0",":","0","2","\n","A","u","t","o"," ","g","b",".","\n">>

\* what a map can hold for a language: no entry, an entry with an empty
\* list, a descriptor without url, a descriptor with the track's URL
EntryShapes == {"absent", "empty", "no_url", "url"}

\* the map of a kind, given the shape of the entry of each language
RECURSIVE CaptionMap(_, _, _)
CaptionMap(kind, shape, i) ==
    IF i > Len(CaptionLangs) THEN <<>>
    ELSE LET lang == CaptionLangs[i]
             here == IF shape[i] = "absent" THEN <<>>
                     ELSE IF shape[i] = "empty" THEN <<CaptionTrack(lang, <<>>)>>
                     ELSE IF shape[i] = "no_url"
                     THEN <<CaptionTrack(lang, <<Descriptor(NoneAtom)>>)>>
                     ELSE <<CaptionTrack(lang, <<Descriptor(CaptionUrl(kind, lang))>>)>>
         IN here \o CaptionMap(kind, shape, i + 1)

\* what a GET of a caption URL can answer: the payload, an HTTP error, a
\* time-out
GetAnswers(url) ==
    {Got("ok", TRUE, Payload(url)), Got("ok", FALSE, <<>>), Got("Exception", FALSE, <<>>)}

\* the answers of the secondary capability: the two maps, and the same kind
\* of answer for every URL
CaptionAnswers ==
    {Dlp("ok", "ok", CaptionMap("human", hs, 1), CaptionMap("auto", as, 1),
         [u \in CaptionUrls |-> CHOOSE g \in GetAnswers(u) : g.get = how.get /\ g.ok = how.ok]) :
        hs \in [1..Len(CaptionLangs) -> EntryShapes],
        as \in [1..Len(CaptionLangs) -> EntryShapes],
        how \in {[get |-> "ok", ok |-> TRUE], [get |-> "ok", ok |-> FALSE],
                 [get |-> "Exception", ok |-> FALSE]}}

InitSecondary ==
    /\ prog \in {"app", "ingestor"}
    /\ pc = "secondary"
    /\ idx = 1
    /\ rows = <<>>
    /\ cur = Unbound
    /\ inputs = <<>>
    /\ log = <<>>
    /\ shadow = ShadowIdle
    /\ kp = KpIdle
    /\ pair = PairIdle
    /\ \E d \in CaptionAnswers : acq = [phase |-> "call", r |-> Acq(YtaNothing, d)]

\* txt, lang, trans, info2 = fetch_with_ytdlp(video_id) (app.py:265)
AppSecondary ==
    /\ pc = "secondary"
    /\ prog = "app"
    /\ acq.phase = "call"
    /\ acq' = [phase |-> "returned", r |-> acq.r, res |-> fetch_with_ytdlp(acq.r.dlp)]
    /\ UNCHANGED <<prog, pc, idx, rows, cur, inputs, log, shadow, kp, pair>>

\* text, lang, translated = try_ytdlp(vid, cookies_path) (ingestor.py:176)
IngestorSecondary ==
    /\ pc = "secondary"
    /\ prog = "ingestor"
    /\ acq.phase = "call"
    /\ acq' = [phase |-> "returned", r |-> acq.r, res |-> try_ytdlp(acq.r.dlp)]
    /\ UNCHANGED <<prog, pc, idx, rows, cur, inputs, log, shadow, kp, pair>>

NextSecondary == AppSecondary \/ IngestorSecondary

SpecSecondary == InitSecondary /\ [][NextSecondary]_vars

-----------------------------------------------------------------------------
(* Properties of the secondary adapter *)

\* the tracks of a map that have a fetchable URL
Fetchable(tracks) == {i \in 1..Len(tracks) : HasUrl(tracks[i].list)}

\* the language is one of the preferred ones
Preferred(lang) == \E i \in 1..Len(langs_en) : langs_en[i] = lang

\* the tracks of a map the policy allows to download: those with a fetchable
\* URL and a preferred language, and any with a fetchable URL when there is
\* none of these
BestOf(tracks) ==
    LET best == {i \in Fetchable(tracks) : Preferred(tracks[i].lang)}
    IN {tracks[i] : i \in IF best # {} THEN best ELSE Fetchable(tracks)}

\* the tracks the policy allows for the call: human ones before automatic ones
Allowed ==
    LET d == acq.r.dlp
    IN IF Fetchable(d.subs) # {} THEN BestOf(d.subs) ELSE BestOf(d.autos)

\* the download of the call's URLs fails
DownloadFails == \A u \in CaptionUrls : acq.r.dlp.get[u].get # "ok" \/ ~acq.r.dlp.get[u].ok

\* C11: the text the secondary adapter returns is that of a track the policy
\* allows (a human track when one has a fetchable URL, of a preferred
\* language when one of the group has a fetchable URL), with that track's
\* language; and it returns no text only when no track of either map has a
\* fetchable URL or the download fails.
C11_HumanAndPreferredFirst ==
    acq.phase = "returned" =>
        /\ acq.res.kind = "return"
        /\ HasText(acq.res) =>
              \E t \in Allowed :
                  /\ acq.res.txt = vtt_to_text(Payload(t.list[1].url))
                  /\ acq.res.lang = t.lang
        /\ ~HasText(acq.res) => (Allowed = {} \/ DownloadFails)

-----------------------------------------------------------------------------
(* Properties of the pass: the delay and the form of the rows *)

\* the iteration of channel i ended in the except branch of the loop
ChannelFailed(i) == FeedFails(inputs[i].feed) \/ inputs[i].cls = "error"

\* the places of the log where channel i has the event
EventsOf(i, event) == {k \in 1..Len(log) : log[k] = <<i, event>>}

\* C12: every channel that failed has a delay after its calls and before the
\* calls of the next channel, and no channel has its feed resolved or its
\* transcript acquired more than once in a pass.
C12_DelayAfterFailure ==
    \A i \in 1..Len(inputs) :
        /\ ChannelFailed(i) =>
              \E k \in EventsOf(i, "sleep") :
                  \A m \in 1..Len(log) :
                      /\ (log[m][1] = i /\ m # k) => m < k
                      /\ log[m][1] > i => m > k
        /\ Cardinality(EventsOf(i, "feed")) <= 1
        /\ Cardinality(EventsOf(i, "acquire")) <= 1


\* the error form of a row: no video, the sentiment unknown, no key points,
\* no entities, and a summary that is an error message
ErrorForm(row) ==
    /\ row.VideoID = NoneAtom /\ row.VideoTitle = "Unavailable"
    /\ row.Published = <<>> /\ row.URL = <<>>
    /\ row.Sentiment = "Unknown" /\ row.KeyPoints = <<>> /\ row.Entities = NoEntities
    /\ Len(row.Summary) >= 1
    /\ SubSeq(row.Summary, 1, Len(row.Summary) - 1) \in {ErrorFetching, ErrorColon}

\* the row has the video the feed resolved to
KeepsVideo(row, f) ==
    LET entry == f.entries[1]
    IN /\ row.VideoID = entry.vid
       /\ row.VideoTitle = entry.title
       /\ row.URL = (IF entry.link.is_dict THEN <<entry.link.href>>
                     ELSE <<"https://www.youtube.com/watch?v=", entry.vid>>)
       /\ row.Published = SubSeq(entry.published, 1, 10)

\* C13: the row of a channel has the error form exactly when resolving the
\* channel's latest video failed, and when the video was resolved the row
\* keeps its id, title, URL and publish date, whatever the transcript
\* acquisition, the extraction or the sentiment labelling did.
C13_ErrorFormIffFeedFailed ==
    \A i \in 1..Len(rows) :
        /\ ErrorForm(rows[i]) <=> FeedFails(inputs[i].feed)
        /\ ~FeedFails(inputs[i].feed) => KeepsVideo(rows[i], inputs[i].feed)

-----------------------------------------------------------------------------
(* The two copies of the fallback chain, called for the same video with    *)
(* the same answers of the two capabilities.                               *)

\* a call that has not returned
Pending == [kind |-> "pending"]

\* the answers of the two capabilities for one video: every answer of the
\* primary with the plain answers of the secondary, and every caption map of
\* the secondary behind a primary that has nothing
ChainAnswers ==
    {Acq(y, d) : y \in YtaAnswers, d \in DlpAnswers}
    \cup {Acq(YtaNothing, d) : d \in CaptionAnswers}

InitChains ==
    /\ prog = "both"
    /\ pc = "chains"
    /\ idx = 1
    /\ rows = <<>>
    /\ cur = Unbound
    /\ inputs = <<>>
    /\ log = <<>>
    /\ shadow = ShadowIdle
    /\ kp = KpIdle
    /\ pair = PairIdle
    /\ \E r \in ChainAnswers : acq = [phase |-> "call", r |-> r, app |-> Pending,
                                      ingestor |-> Pending]

\* tx, src_lang, was_translated, dbg = fetch_transcript_text(video_id)
\* (app.py:284)
AppChain ==
    /\ pc = "chains"
    /\ acq.app = Pending
    /\ acq' = [acq EXCEPT !.app = NoInfo(fetch_transcript_text(acq.r)),
                          !.phase = IF acq.ingestor = Pending THEN "call" ELSE "returned"]
    /\ UNCHANGED <<prog, pc, idx, rows, cur, inputs, log, shadow, kp, pair>>

\* text, lang, translated = try_yta(vid), and try_ytdlp(vid, cookies_path) if
\* not text (ingestor.py:174-176)
IngestorChain ==
    /\ pc = "chains"
    /\ acq.ingestor = Pending
    /\ acq' = [acq EXCEPT !.ingestor = ingestor_acquire(acq.r),
                          !.phase = IF acq.app = Pending THEN "call" ELSE "returned"]
    /\ UNCHANGED <<prog, pc, idx, rows, cur, inputs, log, shadow, kp, pair>>

NextChains == AppChain \/ IngestorChain

SpecChains == InitChains /\ [][NextChains]_vars

\* the two results are the same text, or both no text, from the same
\* language and with the same translated flag
SameResult(a, b) ==
    /\ a.kind = "return" /\ b.kind = "return"
    /\ HasText(a) = HasText(b)
    /\ HasText(a) => a.txt = b.txt
    /\ a.lang = b.lang
    /\ a.trans = b.trans

\* C14: for the same video and the same answers of the primary and the
\* secondary capability, fetch_transcript_text of app.py and try_yta followed
\* by try_ytdlp of ingestor.py return the same text (or both none), the same
\* source language and the same translated flag.
C14_ChainsEquivalent ==
    acq.phase = "returned" => SameResult(acq.app, acq.ingestor)
====
